---- MODULE Spec2Model ----
(***************************************************************************)
(* fastest_sites.py: rank the mirrors of each MASTER_SITE_* group by the   *)
(* latency of a non-blocking TCP connect, driven by asyncore.              *)
(*                                                                         *)
(* URLs are sequences of one-character strings, so that ParseURL, the      *)
(* bad-site filter and the (duration, url) sort key are computed on the    *)
(* text as the script computes them.  Time is an integer clock in the      *)
(* unit of the poll timeouts (seconds); it advances only while select      *)
(* blocks.                                                                 *)
(***************************************************************************)
EXTENDS Integers, Sequences, FiniteSets, TLC

VARIABLES
  mk,            \* bsd.sites.mk as make resolves it: <<[var, out]>>, one per matching line
  argv,          \* sys.argv[1:], the group-name filters
  net,           \* the network: what connecting to each URL's host does
  timely,        \* every connect that ever answers does so before the first select times out
  fdpos,         \* the line of bsd.sites.mk the read loop is at
  sites,         \* varname -> list of URLs
  bad_sites,     \* varname -> list of URLs, groups the bad-site filter caught
  pc,            \* where the script is
  todo,          \* groups the for loop over sites.iteritems() has not visited yet
  varname,       \* the group being ranked
  rawlist,       \* FindFastest's sitelist argument
  probes,        \* the URLs in the order "for url in sitelist" visits them
  nextp,         \* index in probes of the next AsyncConnect to construct
  arrival,       \* probe indexes in the order their sockets become ready
  socket_map,    \* asyncore.socket_map: indexes of the open dispatchers
  start_time,    \* probe index -> _start_time
  probe_state,   \* probe index -> "unparsed", "open", "sentinel", "connected", "error", "abandoned"
  latencies,     \* FindFastest's latencies dict
  calls,         \* the calls of callback made for this FindFastest: <<url, duration>>
  count,         \* asyncore.loop's count (NoCount for None)
  timeout,       \* asyncore.loop's timeout
  now,           \* time.time(), relative to the call of FindFastest
  npolls,        \* calls of asyncore.poll made by the current FindFastest
  stillwaiting,  \* the "Still waiting on data" line was written to stderr
  latency_list,  \* FindFastest's return value
  invoked,       \* the groups FindFastest was called for, in order
  raised         \* the exception that ended the script, "" for none

vars == <<mk, argv, net, timely, fdpos, sites, bad_sites, pc, todo, varname,
          rawlist, probes, nextp, arrival, socket_map, start_time, probe_state,
          latencies, calls, count, timeout, now, npolls, stillwaiting,
          latency_list, invoked, raised>>

(***************************************************************************)
(* Bounds of the model.                                                    *)
(***************************************************************************)
MaxClock == 100   \* the clock saturates here (the second loop can poll for ever)
MaxPolls == 14    \* npolls saturates here
PermLimit == 3    \* sets up to this size are iterated in every order

(***************************************************************************)
(* Constants of the script.                                                *)
(***************************************************************************)
SENTINEL == 1000        \* callback(self._url, 1000)
CAP == 10               \* if count > 10: count = 10
LOOP1_TIMEOUT == 1      \* asyncore.loop(timeout=1, count=count)
LOOP2_TIMEOUT == 30     \* asyncore.loop(timeout=30)
NoCount == -1           \* count=None, asyncore.loop's default
None == <<"<None>">>    \* Python's None where a string is expected

Min(S) == CHOOSE x \in S : \A y \in S : x <= y
Range(s) == {s[i] : i \in 1..Len(s)}
EmptyMap == [x \in {} |-> 0]

(***************************************************************************)
(* Text.                                                                   *)
(***************************************************************************)
Alphabet ==
  <<".", "/", "0", "1", "2", "3", "4", "5", "6", "7", "8", "9", ":", "?",
    "a", "b", "c", "d", "e", "f", "g", "h", "i", "j", "k", "l", "m", "n",
    "o", "p", "q", "r", "s", "t", "u", "v", "w", "x", "y", "z">>

\* ord(c) up to a monotone renumbering: the characters are listed in ASCII order
Ord(c) == CHOOSE i \in 1..Len(Alphabet) : Alphabet[i] = c

IsLetter(c) == Ord(c) >= Ord("a")

\* Python's str < str
StrLess(s, t) ==
  \E i \in 1..(Len(s) + 1) :
    /\ \A j \in 1..(i - 1) : j <= Len(t) /\ s[j] = t[j]
    /\ \/ i = Len(s) + 1 /\ Len(t) >= i
       \/ i <= Len(s) /\ i <= Len(t) /\ Ord(s[i]) < Ord(t[i])

\* str.split(sep, maxsplit)
RECURSIVE split(_, _, _)
split(s, sep, maxsplit) ==
  LET hits == {i \in 1..Len(s) : s[i] = sep} IN
  IF maxsplit = 0 \/ hits = {}
    THEN <<s>>
    ELSE <<SubSeq(s, 1, Min(hits) - 1)>>
           \o split(SubSeq(s, Min(hits) + 1, Len(s)), sep, maxsplit - 1)

\* urllib.splithost: '^//([^/?]*)(.*)$' --> (host, path), else (None, url)
splithost(url) ==
  IF Len(url) >= 2 /\ url[1] = "/" /\ url[2] = "/"
    THEN LET rest == SubSeq(url, 3, Len(url))
             stops == {i \in 1..Len(rest) : rest[i] \in {"/", "?"}}
             e == IF stops = {} THEN Len(rest) + 1 ELSE Min(stops)
         IN <<SubSeq(rest, 1, e - 1), SubSeq(rest, e, Len(rest))>>
    ELSE <<None, url>>

HTTP == <<"h", "t", "t", "p">>
FTP == <<"f", "t", "p">>
HTTPS == <<"h", "t", "t", "p", "s">>

\* AsyncConnect.schemes
schemes == (HTTP :> 80) @@ (FTP :> 21) @@ (HTTPS :> 443)

\* a scheme that is not in schemes given port 80
ParseURLDefaultPort(url) ==
  LET parts == split(url, ":", 2) IN
  IF Len(parts) # 2
    THEN [raises |-> "ValueError", host |-> None, port |-> 0]
    ELSE [raises |-> "", host |-> splithost(parts[2])[1],
          port |-> IF parts[1] \in DOMAIN schemes THEN schemes[parts[1]] ELSE 80]

\* AsyncConnect.ParseURL: the exception it raises ("" for none), _host and _port
ParseURL(url) ==
  LET parts == split(url, ":", 2) IN
  IF Len(parts) # 2
    THEN [raises |-> "ValueError", host |-> None, port |-> 0]
    ELSE LET scheme == parts[1]
             host == splithost(parts[2])[1]
         IN IF scheme \notin DOMAIN schemes
              THEN [raises |-> "KeyError", host |-> host, port |-> 0]
              ELSE [raises |-> "", host |-> host, port |-> schemes[scheme]]

\* bad_site_regex.search: (\/\/\.|\.\.|[a-zA-Z]\/\/) somewhere in the text
BadSiteUrl(url) ==
  \E i \in 1..Len(url) :
    \/ i + 2 <= Len(url) /\ url[i] = "/" /\ url[i + 1] = "/" /\ url[i + 2] = "."
    \/ i + 1 <= Len(url) /\ url[i] = "." /\ url[i + 1] = "."
    \/ i + 2 <= Len(url) /\ IsLetter(url[i]) /\ url[i + 1] = "/" /\ url[i + 2] = "/"

\* the regex is searched in make's whole output; no alternative spans a blank
site_is_bad(output) == \E i \in 1..Len(output) : BadSiteUrl(output[i])

(***************************************************************************)
(* The inputs the model draws from.                                        *)
(***************************************************************************)
UrlA == <<"h", "t", "t", "p", ":", "/", "/", "a", ".", "e", "x", "/">>
UrlB == <<"f", "t", "p", ":", "/", "/", "b", ".", "e", "x", "/">>
UrlC == <<"h", "t", "t", "p", "s", ":", "/", "/", "c", ".", "e", "x", "/">>
UrlFast == <<"h", "t", "t", "p", ":", "/", "/", "f", "a", "s", "t", ".",
             "e", "x", "a", "m", "p", "l", "e", ":", "1">>
UrlSlow == <<"h", "t", "t", "p", ":", "/", "/", "s", "l", "o", "w", ".",
             "e", "x", "a", "m", "p", "l", "e", ":", "2">>
UrlBad == <<"h", "t", "t", "p", ":", "/", "/", ".", "g", "c", ".", "e", "x", "/">>
UrlGopher == <<"g", "o", "p", "h", "e", "r", ":", "/", "/", "g", ".", "e", "x", "/">>
UrlNoHost == <<"h", "t", "t", "p", ":", "h", ".", "e", "x", "/">>

Digit(d) == Alphabet[3 + d]
\* http://mNN.ex/
Mirror(i) ==
  <<"h", "t", "t", "p", ":", "/", "/", "m", Digit(i \div 10), Digit(i % 10),
    ".", "e", "x", "/">>

Line(v, out) == [var |-> v, out |-> out]

CfgDup ==
  <<Line("MASTER_SITE_A", <<UrlA, UrlB, UrlA>>),
    Line("MASTER_SITE_E", <<>>),
    Line("MASTER_SITE_BAD", <<UrlBad, UrlA>>),
    Line("MASTER_SITE_A", <<UrlA, UrlB, UrlA>>)>>
CfgThree == <<Line("MASTER_SITE_C", <<UrlC, UrlA, UrlB>>)>>
CfgTest ==
  <<Line("MASTER_SITE_TEST", <<UrlFast, UrlSlow>>),
    Line("MASTER_SITE_A", <<UrlB>>)>>
CfgMalformed ==
  <<Line("MASTER_SITE_G", <<UrlB, UrlGopher>>),
    Line("MASTER_SITE_H", <<UrlNoHost>>)>>
CfgMany == <<Line("MASTER_SITE_MANY", [i \in 1..15 |-> Mirror(i)])>>

Configs == {CfgDup, CfgThree, CfgTest, CfgMalformed}
ArgvChoices ==
  {{}, {"MASTER_SITE_A"}, {"MASTER_SITE_E", "MASTER_SITE_BAD", "MASTER_SITE_TEST"}}

\* what connect() to a URL's host does: socket.gaierror; EINPROGRESS and then
\* connected; EINPROGRESS and then an error on the socket; EINPROGRESS and
\* then nothing; an errno at once, which dispatcher.connect raises as socket.error
Behaviours == {"noresolve", "accept", "refuse", "silent", "unreachable"}

\* the URLs of a configuration that can reach the network
Probed(cfg) ==
  UNION {Range(cfg[i].out) : i \in {j \in 1..Len(cfg) : ~site_is_bad(cfg[j].out)}}
NetChoices(cfg) ==
  {f \in [Probed(cfg) -> Behaviours] :
     \A u \in Probed(cfg) :
       (ParseURL(u).raises # "" \/ ParseURL(u).host = None) => f[u] = "accept"}

\* the orders a set may be visited in: Python fixes none
Perms(S) ==
  {f \in [1..Cardinality(S) -> S] : \A i, j \in 1..Cardinality(S) : f[i] = f[j] => i = j}
RECURSIVE AscendingUrls(_)
AscendingUrls(S) ==
  IF S = {} THEN <<>>
  ELSE LET m == CHOOSE x \in S : \A y \in S \ {x} : StrLess(x, y)
       IN <<m>> \o AscendingUrls(S \ {m})
RECURSIVE AscendingInts(_)
AscendingInts(S) ==
  IF S = {} THEN <<>> ELSE <<Min(S)>> \o AscendingInts(S \ {Min(S)})
Reverse(s) == [i \in 1..Len(s) |-> s[Len(s) + 1 - i]]
Orders(S, asc) ==
  IF Cardinality(S) <= PermLimit THEN Perms(S) ELSE {asc, Reverse(asc)}
\* the orders "for url in sitelist" may visit a set of URLs in
IterOrders(S) == Orders(S, AscendingUrls(S))
\* a forgotten set(): the list is walked as it is
ProbeOrdersNoDedup(list) == {list}
\* sitelist = set(sitelist); for url in sitelist: the sequences of URLs the
\* loop may construct an AsyncConnect for
ProbeOrders(list) == IterOrders({list[i] : i \in 1..Len(list)})
\* the orders the sockets of the probes in I may become ready in
ArrivalOrders(I) == Orders(I, AscendingInts(I))

(***************************************************************************)
(* FindFastest's helpers.                                                  *)
(***************************************************************************)
\* the entry is filed under the host instead of the URL
callback_by_host(lat, url, duration) ==
  LET key == ParseURL(url).host IN
  IF key \in DOMAIN lat
    THEN [lat EXCEPT ![key] = @ + duration]
    ELSE lat @@ (key :> (0 + duration))
\* callback(url, duration), lines 102-104
callback(lat, url, duration) ==
  IF url \in DOMAIN lat
    THEN [lat EXCEPT ![url] = @ + duration]
    ELSE lat @@ (url :> (0 + duration))

\* except socket.gaierror with the callback left out
on_gaierror_silent(lat, url) == lat
\* except socket.gaierror reporting the poll timeout instead of the sentinel
on_gaierror_timeout(lat, url) == callback(lat, url, LOOP1_TIMEOUT)
\* except socket.gaierror: callback(self._url, 1000), lines 58-59
on_gaierror(lat, url) == callback(lat, url, SENTINEL)
\* the calls of callback on_gaierror makes
gaierror_calls(url) ==
  LET written == on_gaierror(EmptyMap, url) IN
  IF DOMAIN written = {}
    THEN <<>>
    ELSE <<(<<url, written[CHOOSE key \in DOMAIN written : TRUE]>>)>>

\* the key (a, b): the URL first
KeyLessUrlFirst(x, y) == StrLess(x[1], y[1]) \/ (x[1] = y[1] /\ x[2] < y[2])
\* the sort key lambda (a,b): (b,a), compared as Python compares tuples
KeyLess(x, y) == x[2] < y[2] \/ (x[2] = y[2] /\ StrLess(x[1], y[1]))

\* sorted(latencies.iteritems(), key=...), line 125
RECURSIVE SortItems(_)
SortItems(items) ==
  IF items = {} THEN <<>>
  ELSE LET m == CHOOSE x \in items : \A y \in items \ {x} : KeyLess(x, y)
       IN <<m>> \o SortItems(items \ {m})
sorted(lat) == SortItems({<<u, lat[u]>> : u \in DOMAIN lat})

\* the cap left out
FirstCountUncapped(n) == n
\* one iteration too few
FirstCountShort(n) == IF n > CAP THEN CAP ELSE IF n > 0 THEN n - 1 ELSE 0
\* the count handed to the first asyncore.loop, lines 108-113
FirstCount(n) == IF n > CAP THEN CAP ELSE n

\* a count of None taken for no iterations left
LoopCondCounted == socket_map # {} /\ count > 0
\* asyncore.loop's while condition
LoopCond == socket_map # {} /\ (count = NoCount \/ count > 0)

\* dispatchers whose socket will become ready, in the order they do
Pending == SelectSeq(arrival, LAMBDA i : i \in socket_map)

\* handle_write reached for every ready socket, the failed connects included
RECURSIVE HandleReadyAny(_, _)
HandleReadyAny(ready, lat) ==
  IF ready = <<>> THEN lat
  ELSE HandleReadyAny(Tail(ready),
                      callback(lat, probes[Head(ready)], now - start_time[Head(ready)]))

\* asyncore.poll on the first k pending sockets: a connected socket is
\* writable, handle_write calls back and closes; a failed connect raises in
\* handle_connect_event (asyncore of Python 2.7 reads SO_ERROR there),
\* handle_error closes the dispatcher
RECURSIVE HandleReady(_, _)
HandleReady(ready, lat) ==
  IF ready = <<>> THEN lat
  ELSE LET i == Head(ready) IN
       HandleReady(Tail(ready),
                   IF net[probes[i]] = "accept"
                     THEN callback(lat, probes[i], now - start_time[i])
                     ELSE lat)

Outcome(i) == IF net[probes[i]] = "accept" THEN "connected" ELSE "error"

\* the calls of callback that handling the ready sockets makes, in order
RECURSIVE handle_write_calls(_)
handle_write_calls(ready) ==
  IF ready = <<>> THEN <<>>
  ELSE LET i == Head(ready) IN
       (IF net[probes[i]] = "accept"
          THEN <<(<<probes[i], now - start_time[i]>>)>> ELSE <<>>)
       \o handle_write_calls(Tail(ready))

\* only a failed connect closes its dispatcher
closed_on_error(ready) == {i \in Range(ready) : net[probes[i]] # "accept"}
\* the dispatchers closed by handling their event: self.close() in
\* handle_write, line 79, and handle_close after a failed connect
closed_by_event(ready) == Range(ready)

\* a sentinel taken for no data
no_real_data(lat) == \A u \in DOMAIN lat : lat[u] >= SENTINEL
\* "if not latencies", line 116
no_data(lat) == DOMAIN lat = {}

(***************************************************************************)
(* Initial states.                                                         *)
(***************************************************************************)
Start(cfg, filters, network, intime) ==
  /\ mk = cfg
  /\ argv = filters
  /\ net = network
  /\ timely = intime
  /\ fdpos = 1
  /\ sites = EmptyMap
  /\ bad_sites = EmptyMap
  /\ pc = "read"
  /\ todo = {}
  /\ varname = ""
  /\ rawlist = <<>>
  /\ probes = <<>>
  /\ nextp = 1
  /\ arrival = <<>>
  /\ socket_map = {}
  /\ start_time = EmptyMap
  /\ probe_state = EmptyMap
  /\ latencies = EmptyMap
  /\ calls = <<>>
  /\ count = 0
  /\ timeout = 0
  /\ now = 0
  /\ npolls = 0
  /\ stillwaiting = FALSE
  /\ latency_list = <<>>
  /\ invoked = <<>>
  /\ raised = ""

Init ==
  \E cfg \in Configs, filters \in ArgvChoices :
    \E network \in NetChoices(cfg), intime \in BOOLEAN :
      Start(cfg, filters, network, intime)

\* fifteen mirrors that all accept the connection at once
InitMany ==
  Start(CfgMany, {}, [u \in Probed(CfgMany) |-> "accept"], TRUE)

\* fifteen mirrors of which two accept, at some time, and thirteen never answer
InitManySlow ==
  Start(CfgMany, {},
        [u \in Probed(CfgMany) |->
           IF u \in {Mirror(1), Mirror(2)} THEN "accept" ELSE "silent"],
        FALSE)

\* the groups of up to three URLs and the groups of fifteen together
InitCap == Init \/ InitMany \/ InitManySlow

(***************************************************************************)
(* The script.                                                             *)
(***************************************************************************)
callvars == <<varname, rawlist, probes, nextp, arrival, socket_map, start_time,
              probe_state, latencies, calls, count, timeout, now, npolls,
              stillwaiting, latency_list>>
inputs == <<mk, argv, net, timely>>

\* lines 142-153: one matching line of bsd.sites.mk
ReadSitesMk ==
  /\ pc = "read"
  /\ IF fdpos > Len(mk)
       THEN /\ pc' = "main"
            /\ todo' = DOMAIN sites
            /\ UNCHANGED <<fdpos, sites, bad_sites>>
       ELSE LET v == mk[fdpos].var
                output == mk[fdpos].out
            IN /\ IF site_is_bad(output)
                    THEN /\ bad_sites' = [x \in DOMAIN bad_sites \cup {v} |->
                                            IF x = v THEN output ELSE bad_sites[x]]
                         /\ sites' = sites
                    ELSE /\ sites' = [x \in DOMAIN sites \cup {v} |->
                                        IF x = v THEN output ELSE sites[x]]
                         /\ bad_sites' = bad_sites
               /\ fdpos' = fdpos + 1
               /\ UNCHANGED <<pc, todo>>
  /\ UNCHANGED <<inputs, callvars, invoked, raised>>

\* lines 155-161 and 96-100: the next group of the for loop; a group the
\* filters leave out is skipped, any other is handed to FindFastest
MainLoop ==
  /\ pc = "main"
  /\ todo # {}
  /\ \E v \in todo :
       /\ todo' = todo \ {v}
       /\ IF argv # {} /\ v \notin argv
            THEN UNCHANGED <<pc, callvars, invoked>>
            ELSE \E order \in ProbeOrders(sites[v]) :
                 \E arr \in ArrivalOrders({i \in 1..Len(order) :
                                      net[order[i]] \in {"accept", "refuse"}}) :
                   /\ invoked' = Append(invoked, v)
                   /\ varname' = v
                   /\ rawlist' = sites[v]
                   /\ probes' = order
                   /\ arrival' = arr
                   /\ nextp' = 1
                   /\ socket_map' = socket_map
                   /\ start_time' = EmptyMap
                   /\ probe_state' = EmptyMap
                   /\ latencies' = EmptyMap
                   /\ calls' = <<>>
                   /\ count' = 0
                   /\ timeout' = 0
                   /\ now' = 0
                   /\ npolls' = 0
                   /\ stillwaiting' = FALSE
                   /\ latency_list' = <<>>
                   /\ pc' = "connect"
  /\ UNCHANGED <<inputs, fdpos, sites, bad_sites, raised>>

\* lines 47-67 for one url of "for url in sitelist"
AsyncConnect ==
  /\ pc = "connect"
  /\ nextp <= Len(probes)
  /\ LET i == nextp
         url == probes[i]
         target == ParseURL(url)
     IN /\ start_time' = start_time @@ (i :> now)
        /\ nextp' = i + 1
        /\ IF target.raises # ""
             THEN \* ParseURL raised before create_socket
                  /\ raised' = target.raises
                  /\ pc' = "aborted"
                  /\ probe_state' = probe_state @@ (i :> "unparsed")
                  /\ UNCHANGED <<socket_map, latencies, calls>>
             ELSE IF target.host = None
             THEN \* connect() of a host that is None raises TypeError
                  /\ raised' = "TypeError"
                  /\ pc' = "aborted"
                  /\ probe_state' = probe_state @@ (i :> "open")
                  /\ socket_map' = socket_map \cup {i}
                  /\ UNCHANGED <<latencies, calls>>
             ELSE IF net[url] = "unreachable"
             THEN \* dispatcher.connect raises socket.error, which is no gaierror
                  /\ raised' = "socket.error"
                  /\ pc' = "aborted"
                  /\ probe_state' = probe_state @@ (i :> "open")
                  /\ socket_map' = socket_map \cup {i}
                  /\ UNCHANGED <<latencies, calls>>
             ELSE IF net[url] = "noresolve"
             THEN \* socket.gaierror: the sentinel, then close()
                  /\ latencies' = on_gaierror(latencies, url)
                  /\ calls' = calls \o gaierror_calls(url)
                  /\ probe_state' = probe_state @@ (i :> "sentinel")
                  /\ UNCHANGED <<socket_map, raised, pc>>
             ELSE \* EINPROGRESS: the dispatcher stays in the socket map
                  /\ socket_map' = socket_map \cup {i}
                  /\ probe_state' = probe_state @@ (i :> "open")
                  /\ UNCHANGED <<latencies, calls, raised, pc>>
  /\ UNCHANGED <<inputs, fdpos, sites, bad_sites, todo, varname, rawlist, probes,
                 arrival, count, timeout, now, npolls, stillwaiting, latency_list,
                 invoked>>

\* lines 108-114: the call asyncore.loop(timeout=1, count=count)
BeginLoop ==
  /\ pc = "connect"
  /\ nextp > Len(probes)
  /\ count' = FirstCount(Len(probes))
  /\ timeout' = LOOP1_TIMEOUT
  /\ pc' = "loop1"
  /\ UNCHANGED <<inputs, fdpos, sites, bad_sites, todo, varname, rawlist, probes,
                 nextp, arrival, socket_map, start_time, probe_state, latencies,
                 calls, now, npolls, stillwaiting, latency_list, invoked, raised>>

\* one iteration of asyncore.loop: poll(timeout, map), then count = count - 1.
\* select returns the first k sockets to become ready, or none after timeout
Poll ==
  /\ pc \in {"loop1", "loop2"}
  /\ LoopCond
  /\ \E k \in 0..Len(Pending) :
       /\ k = 0 => (Pending = <<>> \/ ~timely)
       /\ LET ready == SubSeq(Pending, 1, k) IN
          /\ now' = IF k = 0 THEN Min({now + timeout, MaxClock}) ELSE now
          /\ latencies' = HandleReady(ready, latencies)
          /\ calls' = calls \o handle_write_calls(ready)
          /\ socket_map' = socket_map \ closed_by_event(ready)
          /\ probe_state' = [i \in DOMAIN probe_state |->
                               IF i \in closed_by_event(ready)
                                 THEN Outcome(i) ELSE probe_state[i]]
  /\ count' = IF count = NoCount THEN NoCount ELSE count - 1
  /\ npolls' = Min({npolls + 1, MaxPolls})
  /\ UNCHANGED <<inputs, fdpos, sites, bad_sites, pc, todo, varname, rawlist,
                 probes, nextp, arrival, start_time, timeout, stillwaiting,
                 latency_list, invoked, raised>>

\* asyncore.loop returns; after the first loop, lines 116-119
LoopReturn ==
  /\ pc \in {"loop1", "loop2"}
  /\ ~LoopCond
  /\ IF pc = "loop1" /\ no_data(latencies)
       THEN /\ stillwaiting' = TRUE
            /\ timeout' = LOOP2_TIMEOUT
            /\ count' = NoCount
            /\ pc' = "loop2"
       ELSE /\ pc' = "close"
            /\ UNCHANGED <<stillwaiting, timeout, count>>
  /\ UNCHANGED <<inputs, fdpos, sites, bad_sites, todo, varname, rawlist, probes,
                 nextp, arrival, socket_map, start_time, probe_state, latencies,
                 calls, now, npolls, latency_list, invoked, raised>>

\* close_all() left out
close_none(map) == map
\* asyncore.close_all(), line 122
close_all(map) == {}

\* lines 121-126: close what is still open, sort, return
CloseAndSort ==
  /\ pc = "close"
  /\ socket_map' = close_all(socket_map)
  /\ probe_state' = [i \in DOMAIN probe_state |->
                       IF i \in socket_map \ close_all(socket_map)
                         THEN "abandoned" ELSE probe_state[i]]
  /\ latency_list' = sorted(latencies)
  /\ pc' = "print"
  /\ UNCHANGED <<inputs, fdpos, sites, bad_sites, todo, varname, rawlist, probes,
                 nextp, arrival, start_time, latencies, calls, count, timeout, now,
                 npolls, stillwaiting, invoked, raised>>

\* lines 163-168: the ranking is printed, the for loop goes on
PrintRanking ==
  /\ pc = "print"
  /\ pc' = "main"
  /\ UNCHANGED <<inputs, fdpos, sites, bad_sites, todo, callvars, invoked, raised>>

\* lines 170-175: the walk over bad_sites, then the script ends
BadSitesWalk ==
  /\ pc = "main"
  /\ todo = {}
  /\ pc' = "exit"
  /\ UNCHANGED <<inputs, fdpos, sites, bad_sites, todo, callvars, invoked, raised>>

Next ==
  \/ ReadSitesMk
  \/ MainLoop
  \/ AsyncConnect
  \/ BeginLoop
  \/ Poll
  \/ LoopReturn
  \/ CloseAndSort
  \/ PrintRanking
  \/ BadSitesWalk

Spec == Init /\ [][Next]_vars
SpecMany == InitMany /\ [][Next]_vars
SpecCap == InitCap /\ [][Next]_vars

(***************************************************************************)
(* What the claims are stated with.                                        *)
(***************************************************************************)
SetOf(list) == {list[i] : i \in 1..Len(list)}
NoRepeat(list) == \A i, j \in 1..Len(list) : list[i] = list[j] => i = j
Returned == pc = "print"
InCall == pc \in {"connect", "loop1", "loop2", "close", "print"}
RankingUrls == [i \in 1..Len(latency_list) |-> latency_list[i][1]]
Elapsed(i) == latency_list[i][2]
\* the probes constructed for a URL, and how each ended
ProbesOf(u) == {i \in DOMAIN probe_state : probes[i] = u}
EndedAs(u, how) == \E i \in ProbesOf(u) : probe_state[i] = how
Selected == IF argv = {} THEN DOMAIN sites ELSE DOMAIN sites \cap argv

\* C1: the ranking FindFastest returns holds no URL twice and only URLs of
\* the list it was given, whatever the probes did
C1_RankingWithinInput ==
  /\ NoRepeat(RankingUrls)
  /\ SetOf(RankingUrls) \subseteq SetOf(rawlist)
C1_Witness ==
  /\ Returned
  /\ ~NoRepeat(rawlist)
  /\ Len(latency_list) = 1
  /\ \E i \in DOMAIN probe_state : probe_state[i] \in {"error", "abandoned"}

\* C2 as stated: with fifteen mirrors that all connect within one time unit
\* the returned ranking holds all fifteen, however the polls group them
C2_AllFifteenRanked ==
  Returned => SetOf(RankingUrls) = SetOf(rawlist)
\* C2 as amended: every completion a poll observed is ranked and nothing else
\* is; the first loop polls at most ten times and each poll observes at least
\* one completion, so at least ten mirrors are ranked; all fifteen are ranked
\* exactly when no probe was still open after the last poll, and mirrors are
\* dropped only once the ten polls are used up
C2_RankedWithinTenPolls ==
  /\ npolls <= CAP
  /\ pc \in {"loop1", "close", "print"} =>
       Cardinality({i \in DOMAIN probe_state : probe_state[i] = "connected"}) >= npolls
  /\ Returned =>
       /\ SetOf(RankingUrls) = {probes[i] : i \in {j \in DOMAIN probe_state :
                                                    probe_state[j] = "connected"}}
       /\ Len(latency_list) >= CAP
       /\ Len(latency_list) = Cardinality(SetOf(rawlist))
            <=> ~\E i \in DOMAIN probe_state : probe_state[i] = "abandoned"
       /\ (\E i \in DOMAIN probe_state : probe_state[i] = "abandoned") => npolls = CAP
C2_Witness ==
  /\ Returned
  /\ Cardinality(SetOf(rawlist)) = 15
  /\ Len(latency_list) = 15
  /\ npolls = CAP

C4_SortedByElapsedThenUrl ==
  Returned =>
    /\ SetOf(latency_list) = {<<u, latencies[u]>> : u \in DOMAIN latencies}
    /\ Len(latency_list) = Cardinality(DOMAIN latencies)
    /\ \A i, j \in 1..Len(latency_list) :
         i < j => \/ Elapsed(i) < Elapsed(j)
                  \/ Elapsed(i) = Elapsed(j) /\ StrLess(RankingUrls[i], RankingUrls[j])
C4_Witness ==
  /\ Returned
  /\ \E i, j, k \in 1..Len(latency_list) :
       /\ i < j /\ j < k
       /\ Elapsed(i) = Elapsed(j)
       /\ Elapsed(j) < Elapsed(k)
       /\ StrLess(RankingUrls[k], RankingUrls[i])

\* C5: a list and the list written twice start the same probes, one for each
\* distinct URL, and the ranking is read off the table of what those probes
\* reported, so the two calls return the same sequence for the same outcomes
C5_DedupIdempotent ==
  InCall =>
    /\ ProbeOrders(rawlist \o rawlist) = ProbeOrders(rawlist)
    /\ NoRepeat(probes)
    /\ SetOf(probes) = SetOf(rawlist)
    /\ \A u \in DOMAIN latencies : Cardinality(ProbesOf(u)) = 1
    /\ Returned =>
         SetOf(RankingUrls) =
           {u \in SetOf(rawlist) : EndedAs(u, "sentinel") \/ EndedAs(u, "connected")}
C5_Witness ==
  /\ Returned
  /\ ~NoRepeat(rawlist)
  /\ Len(latency_list) = 2
  /\ \E i \in 1..2 : Elapsed(i) > 0

\* C6: called with one URL whose host does not resolve, FindFastest raises
\* nothing, polls nothing and returns that URL with the sentinel latency
C6_SingleUnresolvable ==
  (InCall \/ pc = "aborted") /\ Len(probes) = 1 /\ net[probes[1]] = "noresolve"
    => /\ raised = ""
       /\ npolls = 0
       /\ pc # "connect" \/ nextp = 1 \/ latencies = (probes[1] :> SENTINEL)
       /\ Returned => latency_list = <<(<<probes[1], SENTINEL>>)>>
C6_Witness ==
  /\ Returned
  /\ Len(probes) = 1
  /\ net[probes[1]] = "noresolve"
  /\ ~stillwaiting

\* C7: for the group of http://fast.example:1 and http://slow.example:2,
\* both accepting, the call ends by returning the two in that order
C7_FastSlowRanked ==
  (varname = "MASTER_SITE_TEST" /\ pc \in {"print", "aborted"}
     /\ SetOf(rawlist) = {UrlFast, UrlSlow}
     /\ net[UrlFast] = "accept" /\ net[UrlSlow] = "accept")
    => /\ pc = "print"
       /\ RankingUrls = <<UrlFast, UrlSlow>>

\* C8: called with no URL, FindFastest constructs no probe, finds no socket
\* to wait on, polls in neither loop and returns the empty sequence
C8_EmptyInput ==
  InCall /\ SetOf(rawlist) = {}
    => /\ probes = <<>>
       /\ DOMAIN start_time = {}
       /\ socket_map = {}
       /\ npolls = 0
       /\ now = 0
       /\ latency_list = <<>>
C8_Witness ==
  /\ Returned
  /\ rawlist = <<>>
  /\ stillwaiting
  /\ Len(invoked) >= 2

\* C9: when the script has ended, FindFastest has been called for exactly the
\* parsed groups the filters select (all of them when there is no filter)
C9_ExactlySelectedRanked ==
  pc \in {"exit", "aborted"} => SetOf(invoked) = Selected /\ NoRepeat(invoked)

\* C10: the time a call of FindFastest has spent blocked never exceeds the
\* first loop's polls of one unit each plus the 30 units of the second wait,
\* also when the probes still open never complete and never fail
C10_BoundedWait ==
  (InCall /\ \A i \in socket_map : net[probes[i]] = "silent")
    => now <= FirstCount(Len(probes)) * LOOP1_TIMEOUT + LOOP2_TIMEOUT

\* what ParseURL (or connect on a host of None) raises for a malformed URL
ParseErrors == {"ValueError", "KeyError", "TypeError"}

\* C11: no failure of a probe's host (unresolvable, refusing, failing connect
\* at once, or never answering) aborts FindFastest: when a call was aborted,
\* it was a malformed URL that aborted it
C11_NoProbeFailureAborts ==
  pc = "aborted" => raised \in ParseErrors

\* the URLs whose probe called back, with a measurement or the sentinel
Recorded == {probes[i] : i \in {j \in DOMAIN probe_state :
                                  probe_state[j] \in {"connected", "sentinel"}}}
Abandoned == {i \in DOMAIN probe_state : probe_state[i] = "abandoned"}

\* C12: once FindFastest has returned no dispatcher is left in the socket
\* map; a probe that close_all had to close has no entry in latencies and is
\* not in the ranking; the ranking holds exactly the URLs whose probe called
\* back with a measurement or the sentinel
C12_Abandonment ==
  /\ pc \in {"print", "main", "exit"} => socket_map = {}
  /\ Returned =>
       /\ \A i \in Abandoned :
            /\ probes[i] \notin DOMAIN latencies
            /\ probes[i] \notin SetOf(RankingUrls)
       /\ SetOf(RankingUrls) = Recorded
       /\ DOMAIN latencies = Recorded
C12_Witness ==
  /\ Returned
  /\ Abandoned # {}
  /\ Len(latency_list) >= 2

\* C13: the second loop and its "Still waiting" message are entered exactly
\* when latencies is empty as the first loop returns; a sentinel is an entry,
\* so a call with an unresolvable host never enters the second loop, and the
\* probes open as the first loop returns with data are closed by close_all
\* without a callback
C13_IdleWaitIffEmpty ==
  /\ [][(pc = "loop1" /\ pc' # "loop1")
          => /\ (pc' = "loop2") <=> (latencies = EmptyMap)
             /\ stillwaiting' <=> (latencies = EmptyMap)
             /\ pc' \in {"loop2", "close"}]_vars
  /\ [][(pc = "close" /\ ~stillwaiting /\ pc' = "print")
          => \A i \in socket_map : /\ probe_state'[i] = "abandoned"
                                   /\ probes[i] \notin SetOf(RankingUrls')]_vars
  /\ []((InCall /\ \E i \in DOMAIN probe_state : probe_state[i] = "sentinel")
          => (pc # "loop2" /\ ~stillwaiting))
  /\ []((pc = "loop2" => stillwaiting) /\ (pc \in {"connect", "loop1"} => ~stillwaiting))
C13_Witness ==
  /\ Returned
  /\ ~stillwaiting
  /\ \E i \in DOMAIN probe_state : probe_state[i] = "sentinel"
  /\ Abandoned # {}

Constructed == DOMAIN probe_state
HostIs(i, how) == i \in Constructed /\ probe_state[i] # "unparsed" /\ net[probes[i]] \in how

SchemeOf(url) ==
  LET colons == {k \in 1..Len(url) : url[k] = ":"} IN
  IF colons = {} THEN url ELSE SubSeq(url, 1, Min(colons) - 1)
UnknownScheme(i) == i \in Constructed /\ SchemeOf(probes[i]) \notin {HTTP, FTP, HTTPS}

\* C15: constructing AsyncConnect for a URL whose scheme is none of http, ftp
\* and https raises in ParseURL: no socket was created and no connect issued
\* for it, latencies never gets an entry for it, and the exception leaves
\* FindFastest, which constructs no further probe and returns no ranking
C15_UnknownSchemeRaises ==
  \A i \in 1..Len(probes) :
    UnknownScheme(i) =>
      /\ pc = "aborted"
      /\ raised \in {"KeyError", "ValueError"}
      /\ probe_state[i] = "unparsed"
      /\ i \notin socket_map
      /\ probes[i] \notin DOMAIN latencies
      /\ probes[i] \notin {calls[k][1] : k \in 1..Len(calls)}
      /\ nextp = i + 1
      /\ npolls = 0
      /\ latency_list = <<>>
C15_Witness ==
  /\ pc = "aborted"
  /\ raised = "KeyError"
  /\ \E i \in Constructed : UnknownScheme(i) /\ i > 1

CalledUrls == [k \in 1..Len(calls) |-> calls[k][1]]

\* C16: within one call of FindFastest callback is called at most once for a
\* URL, so every value in latencies is the one duration reported for its
\* URL, an elapsed time or the sentinel, and never the sum of two reports
C16_SingleMeasurement ==
  /\ NoRepeat(CalledUrls)
  /\ DOMAIN latencies = SetOf(CalledUrls)
  /\ \A k \in 1..Len(calls) : latencies[calls[k][1]] = calls[k][2]
  /\ \A i \in Constructed :
       /\ probe_state[i] = "sentinel" => latencies[probes[i]] = SENTINEL
       /\ probe_state[i] = "connected"
            => latencies[probes[i]] \in 0..(now - start_time[i])
C16_Witness ==
  /\ Returned
  /\ \E j, k \in 1..Len(calls) :
       /\ calls[j][2] = SENTINEL
       /\ calls[k][2] \in 1..(SENTINEL - 1)

\* the first loop is running; a step of it that is one poll
InFirstLoop == pc = "loop1"
PollStep == pc' = pc /\ count' = count - 1

\* C17 as stated: with more than ten URLs the first loop stops polling once
\* ten completions have been observed
C17_StopsAfterTenCompletions ==
  (InFirstLoop /\ Len(probes) > CAP /\ Len(calls) >= CAP) => ~LoopCond
\* C17 as amended: the first loop polls at most ten times when there are more
\* than ten URLs and at most as many times as there are URLs otherwise,
\* whatever the polls observed; it polls only while a dispatcher is open and
\* returns only when none is open or the iterations are used up
C17_PollCap ==
  /\ [](InFirstLoop =>
          /\ Len(probes) > CAP => (npolls <= CAP /\ count = CAP - npolls)
          /\ Len(probes) <= CAP => (npolls <= Len(probes) /\ count = Len(probes) - npolls))
  /\ [][(InFirstLoop /\ PollStep) => (socket_map # {} /\ count > 0)]_vars
  /\ [][(InFirstLoop /\ pc' # "loop1") => (socket_map = {} \/ count = 0)]_vars
C17_Witness ==
  /\ pc = "close"
  /\ ~stillwaiting
  /\ Len(probes) > CAP
  /\ npolls = CAP
  /\ Len(calls) < CAP
  /\ socket_map # {}

\* a step that writes to latencies (MainLoop's fresh dict is no write)
WritesTable == latencies' # latencies /\ latencies' # EmptyMap

\* C18 as stated: every write to latencies, of a measurement or of a sentinel,
\* happens while one of the asyncore loops runs
C18_WritesOnlyInLoop ==
  [][WritesTable => pc \in {"loop1", "loop2"}]_vars
\* C18 as amended: every write to latencies is made by callback; a
\* measurement is written by a poll of one of the loops, a sentinel is
\* written while the probe is constructed, before the first loop starts, for
\* the URL under construction; a step writes for one probe after the other
C18_WritesOnlyByCallback ==
  [][WritesTable =>
       /\ Len(calls') > Len(calls)
       /\ SubSeq(calls', 1, Len(calls)) = calls
       /\ DOMAIN latencies' = DOMAIN latencies \cup SetOf(CalledUrls')
       /\ \A k \in (Len(calls) + 1)..Len(calls') :
            /\ calls'[k][1] \notin DOMAIN latencies
            /\ latencies'[calls'[k][1]] = calls'[k][2]
            /\ IF calls'[k][2] = SENTINEL
                 THEN /\ pc = "connect"
                      /\ Len(calls') = Len(calls) + 1
                      /\ calls'[k][1] = probes[nextp]
                 ELSE pc \in {"loop1", "loop2"}
       /\ \A u \in DOMAIN latencies : latencies'[u] = latencies[u]]_vars
C18_Witness ==
  /\ pc = "connect"
  /\ nextp <= Len(probes)
  /\ \E u \in DOMAIN latencies : latencies[u] = SENTINEL

\* at most ten URLs, and every socket opened for them is ready, connected or
\* failed, within the first poll's interval
AllReadyAtOnce ==
  /\ InCall
  /\ timely
  /\ Len(probes) <= CAP
  /\ \A i \in 1..Len(probes) : net[probes[i]] # "silent"
ClosedByPoll == {i \in Constructed : probe_state[i] \in {"connected", "error"}}

\* C19: with at most ten URLs whose sockets are all ready within the first
\* poll's interval, every poll of the first loop closes at least one open
\* dispatcher, so the first loop returns with no dispatcher open and
\* close_all abandons none
C19_NoneAbandonedWhenTimely ==
  /\ [][(AllReadyAtOnce /\ InFirstLoop /\ PollStep)
          => (socket_map' \subseteq socket_map /\ socket_map' # socket_map)]_vars
  /\ [][(AllReadyAtOnce /\ InFirstLoop /\ pc' # "loop1") => socket_map = {}]_vars
  /\ []((AllReadyAtOnce /\ InFirstLoop) => Cardinality(ClosedByPoll) >= npolls)
  /\ []((AllReadyAtOnce /\ pc \in {"loop2", "close", "print"})
          => (socket_map = {} /\ Abandoned = {}))
C19_Witness ==
  /\ AllReadyAtOnce
  /\ Returned
  /\ ~stillwaiting
  /\ Len(probes) = 3
  /\ npolls = 3
  /\ \E i \in Constructed : probe_state[i] = "error"

\* the URLs of the call whose connection completes when it is waited for
Completing == {probes[i] : i \in {j \in 1..Len(probes) : net[probes[j]] = "accept"}}

\* C20: the second loop runs without a count and returns only when no
\* dispatcher is left in the socket map; so after a call that entered it
\* close_all finds nothing to close, no probe is abandoned, and the ranking
\* holds every URL of the call whose connection completes
C20_SecondLoopDrains ==
  /\ [](pc = "loop2" => (count = NoCount /\ stillwaiting))
  /\ [][(pc = "loop2" /\ pc' # "loop2") => (socket_map = {} /\ pc' = "close")]_vars
  /\ []((stillwaiting /\ pc \in {"close", "print"})
          => (socket_map = {} /\ Abandoned = {}))
  /\ []((stillwaiting /\ Returned) => SetOf(RankingUrls) = Completing)
C20_Witness ==
  /\ Returned
  /\ stillwaiting
  /\ now >= LOOP1_TIMEOUT + LOOP2_TIMEOUT
  /\ Len(latency_list) >= 2
  /\ \E i \in Constructed : probe_state[i] = "error"

====
